---- MODULE Spec2Model ----
(***************************************************************************)
(* State-machine model of the Roon -> MPRIS multi-zone bridge.             *)
(*                                                                         *)
(* Conventions                                                             *)
(*  - A JavaScript string is a sequence of one-character strings.          *)
(*  - A JavaScript object is a function whose DOMAIN is the set of the     *)
(*    properties that are present; Has(o, k) is "o.k is not undefined".    *)
(*  - A number of seconds is held in half seconds (Sec(10) is 10 s,        *)
(*    Sec(13) + 1 is 13.5 s), so that fractional reports are expressible;  *)
(*    Micro(s) is the code's `s * 1000000`.                                *)
(*  - Objects created by the program (contexts, players) live in a heap    *)
(*    indexed by creation order; a context and the player it holds share   *)
(*    their index.                                                         *)
(***************************************************************************)
EXTENDS Integers, Sequences, FiniteSets, TLC

\* ------------------------------------------------------------------ bounds

\* Player objects created over a run.
MaxPlayers == 2
\* Upstream seek calls whose completion callback has not run yet.
MaxPending == 1
\* The longest display name of the zones whose names vary.
MaxNameLen == 2

\* --------------------------------------------------------------- utilities

Has(o, k) == k \in DOMAIN o

\* o with o.k = v.
Put(o, k, v) == (k :> v) @@ o

Sec(n) == n * 2

Micro(s) == s * 500000

Range(s) == {s[i] : i \in DOMAIN s}

Abs(x) == IF x < 0 THEN -x ELSE x

Max0(x) == IF x < 0 THEN 0 ELSE x

Digits == {"0", "1", "2", "3", "4", "5", "6", "7", "8", "9"}

Uppers == {"A", "B", "C", "D", "E", "F", "G", "H", "I", "J", "K", "L", "M",
           "N", "O", "P", "Q", "R", "S", "T", "U", "V", "W", "X", "Y", "Z"}

Lowers == {"a", "b", "c", "d", "e", "f", "g", "h", "i", "j", "k", "l", "m",
           "n", "o", "p", "q", "r", "s", "t", "u", "v", "w", "x", "y", "z"}

\* ------------------------------------------------------- sanitizeForDBus

\* The character class [A-Za-z0-9_-].
DBusChars == Uppers \cup Lowers \cup Digits \cup {"_", "-"}

\* A sanitizer that replaces the characters outside the class and does no more.
ReplaceOnly(displayName) ==
    [i \in DOMAIN displayName |->
        IF displayName[i] \in DBusChars THEN displayName[i] ELSE "_"]

sanitizeForDBus(displayName) ==
    LET sanitized == [i \in DOMAIN displayName |->
                        IF displayName[i] \in DBusChars THEN displayName[i] ELSE "_"]
        prefixed  == IF Len(sanitized) > 0 /\ sanitized[1] \in Digits
                     THEN <<"z", "o", "n", "e", "_">> \o sanitized
                     ELSE sanitized
    IN IF prefixed = <<>>
       THEN <<"u", "n", "n", "a", "m", "e", "d", "_", "z", "o", "n", "e">>
       ELSE prefixed

\* ------------------------------------------------------- generateTrackId

\* The printable ASCII characters in code order: Ascii[i] has char code 31 + i
\* (the grave accent, code 96, cannot be written as a string and is spelled out).
Ascii ==
    <<" ", "!", "\"", "#", "$", "%", "&", "'", "(", ")", "*", "+", ",", "-", ".", "/",
      "0", "1", "2", "3", "4", "5", "6", "7", "8", "9", ":", ";", "<", "=", ">", "?",
      "@", "A", "B", "C", "D", "E", "F", "G", "H", "I", "J", "K", "L", "M", "N", "O",
      "P", "Q", "R", "S", "T", "U", "V", "W", "X", "Y", "Z", "[", "\\", "]", "^", "_",
      "grave", "a", "b", "c", "d", "e", "f", "g", "h", "i", "j", "k", "l", "m", "n", "o",
      "p", "q", "r", "s", "t", "u", "v", "w", "x", "y", "z", "{", "|", "}", "~">>

\* String.prototype.charCodeAt for one character.
charCodeAt(c) == 31 + (CHOOSE i \in DOMAIN Ascii : Ascii[i] = c)

HexDigits ==
    <<"0", "1", "2", "3", "4", "5", "6", "7", "8", "9", "a", "b", "c", "d", "e", "f">>

\* A 32-bit word is a pair <<high 16 bits, low 16 bits>> (the two's complement
\* bit pattern: the word is negative as an int32 iff its high half is >= 32768).
\* One round of the loop: hash = ((hash << 5) - hash) + char; hash = hash & hash.
HashStep(hash, char) ==
    LET lo == hash[2] * 31 + char
        hi == hash[1] * 31 + (lo \div 65536)
    IN <<hi % 65536, lo % 65536>>

\* The rounds i = from..to of the loop, in order, started with hash. (The range is
\* halved rather than walked, and the left half is computed before the right one
\* starts, so that the evaluation stays shallow.)
RECURSIVE HashLoop(_, _, _, _)
HashLoop(combined, from, to, hash) ==
    IF from > to THEN hash
    ELSE IF from = to THEN HashStep(hash, charCodeAt(combined[from]))
    ELSE LET mid == (from + to) \div 2
         IN CHOOSE result \in {HashLoop(combined, mid + 1, to, left) :
                                 left \in {HashLoop(combined, from, mid, hash)}} : TRUE

\* The four hexadecimal digits of a 16-bit half, most significant first.
Hex4(h) == <<HexDigits[(h \div 4096) + 1], HexDigits[((h \div 256) % 16) + 1],
             HexDigits[((h \div 16) % 16) + 1], HexDigits[(h % 16) + 1]>>

RECURSIVE StripZeros(_)
StripZeros(ds) ==
    IF Len(ds) > 1 /\ ds[1] = "0" THEN StripZeros(Tail(ds)) ELSE ds

\* (hash >>> 0).toString(16): no leading zeros, "0" for zero.
HashStr(hash) == StripZeros(Hex4(hash[1]) \o Hex4(hash[2]))

\* A line that is spelled "undefined" when it is missing, as a template
\* literal spells an undefined value.
LineOrUndefined(nowPlaying, line) ==
    IF Has(nowPlaying, "three_line") /\ Has(nowPlaying.three_line, line)
    THEN nowPlaying.three_line[line]
    ELSE <<"u", "n", "d", "e", "f", "i", "n", "e", "d">>

\* now_playing.three_line?.lineN || ''
LineOrEmpty(nowPlaying, line) ==
    IF Has(nowPlaying, "three_line") /\ Has(nowPlaying.three_line, line)
    THEN nowPlaying.three_line[line]
    ELSE <<>>

Combined(nowPlaying) ==
    LineOrEmpty(nowPlaying, "line1") \o <<"|">> \o LineOrEmpty(nowPlaying, "line2")
        \o <<"|">> \o LineOrEmpty(nowPlaying, "line3")

\* player.objectPath(subpath) belongs to the player library: the result is kept
\* as the receiver's name and the argument it was given.
objectPath(playerName, subpath) == [owner |-> playerName, subpath |-> subpath]

generateTrackId(playerName, zoneId, nowPlaying) ==
    LET combined == Combined(nowPlaying)
        hashStr  == HashStr(HashLoop(combined, 1, Len(combined), <<0, 0>>))
    IN objectPath(playerName,
                  <<"t", "r", "a", "c", "k", "/">> \o zoneId \o <<"_">> \o hashStr)

\* ------------------------------------------------- String.prototype.split

Whitespace == {" ", "\t"}

\* The first index >= i of s that holds no whitespace (Len(s) + 1 if none).
RECURSIVE SkipSpace(_, _)
SkipSpace(s, i) ==
    IF i <= Len(s) /\ s[i] \in Whitespace THEN SkipSpace(s, i + 1) ELSE i

\* The index after a match of /\s+\/\s+/ that starts at i, or 0 when there is none.
MatchEnd(s, i) ==
    IF i <= Len(s) /\ s[i] \in Whitespace
    THEN LET j == SkipSpace(s, i)
         IN IF j + 1 <= Len(s) /\ s[j] = "/" /\ s[j + 1] \in Whitespace
            THEN SkipSpace(s, j + 1)
            ELSE 0
    ELSE 0

\* A split on the three characters space, slash, space.
RECURSIVE SplitOnSpaceSlashSpace(_)
SplitOnSpaceSlashSpace(s) ==
    LET starts == {i \in 1..(Len(s) - 2) : SubSeq(s, i, i + 2) = <<" ", "/", " ">>}
    IN IF starts = {} THEN <<s>>
       ELSE LET i == CHOOSE k \in starts : \A m \in starts : k <= m
            IN <<SubSeq(s, 1, i - 1)>> \o SplitOnSpaceSlashSpace(SubSeq(s, i + 3, Len(s)))

\* line2.split(/\s+\/\s+/)
RECURSIVE SplitArtists(_)
SplitArtists(s) ==
    LET starts == {i \in DOMAIN s : MatchEnd(s, i) > 0}
    IN IF starts = {} THEN <<s>>
       ELSE LET i == CHOOSE k \in starts : \A m \in starts : k <= m
            IN <<SubSeq(s, 1, i - 1)>> \o SplitArtists(SubSeq(s, MatchEnd(s, i), Len(s)))

\* ------------------------------------------------------------- zone data

Z1 == <<"z", "1">>

Z2 == <<"z", "2">>

ZoneIds == {Z1, Z2}

\* core.moo.transport.ws._url of the connection.
WsUrls == {<<"w", "s", ":", "/", "/", "1", "9", "2", ".", "1", "6", "8", ".", "1", ".", "5", ":", "9", "1", "0", "0">>}

NameOf(zoneId) == IF zoneId = Z1 THEN <<"L", "i", "v", "i", "n", "g", " ", "R", "o", "o", "m">> ELSE <<"O", "f", "f", "i", "c", "e">>

\* A zone that plays a track, with every control allowed.
ZonePlaying(zoneId) ==
    [zone_id |-> zoneId, display_name |-> NameOf(zoneId), state |-> <<"p", "l", "a", "y", "i", "n", "g">>,
     is_next_allowed |-> TRUE, is_previous_allowed |-> TRUE,
     is_pause_allowed |-> TRUE, is_seek_allowed |-> TRUE,
     now_playing |->
        [three_line |-> [line1 |-> <<"S", "o", "n", "g">>, line2 |-> <<"A", "r", "t", "i", "s", "t", " ", "A", " ", "/", " ", "A", "r", "t", "i", "s", "t", " ", "B">>,
                         line3 |-> <<"A", "l", "b", "u", "m">>],
         length |-> Sec(200), seek_position |-> Sec(10), image_key |-> <<"i", "m", "g", "1">>,
         sample_rate |-> 44100],
     outputs |-> <<[source_controls |-> <<[sample_rate |-> 48000]>>]>>]

\* A renamed zone with nothing queued: no now_playing record, no seeking.
ZoneIdle(zoneId) ==
    [zone_id |-> zoneId, display_name |-> <<"2", "F">>, state |-> <<"p", "a", "u", "s", "e", "d">>,
     is_next_allowed |-> FALSE, is_previous_allowed |-> TRUE,
     is_pause_allowed |-> FALSE, is_seek_allowed |-> FALSE]

\* A zone whose now_playing record lacks three_line.
ZoneMalformed(zoneId) ==
    [zone_id |-> zoneId, display_name |-> NameOf(zoneId), state |-> <<"s", "t", "o", "p", "p", "e", "d">>,
     is_next_allowed |-> TRUE, is_previous_allowed |-> FALSE,
     is_pause_allowed |-> TRUE, is_seek_allowed |-> TRUE,
     now_playing |-> [length |-> Sec(180), seek_position |-> Sec(30),
                      image_key |-> <<"i", "m", "g", "2">>]]

\* The seek_position values of the zones_seek_changed entries: 10 s, 11 s,
\* 13.5 s, 30 s and 45 s.
SeekPositions == {Sec(10), Sec(11), Sec(13) + 1, Sec(30), Sec(45)}

\* Offsets of the 'seek' event and targets of the 'position' event, microseconds.
SeekOffsets == {5000000}

SetPositions == {45000000}

\* -------------------------------------------------- updatePlayerFromZone

LowerSeq == <<"a", "b", "c", "d", "e", "f", "g", "h", "i", "j", "k", "l", "m",
              "n", "o", "p", "q", "r", "s", "t", "u", "v", "w", "x", "y", "z">>

UpperSeq == <<"A", "B", "C", "D", "E", "F", "G", "H", "I", "J", "K", "L", "M",
              "N", "O", "P", "Q", "R", "S", "T", "U", "V", "W", "X", "Y", "Z">>

toUpperCase(c) ==
    IF c \in Lowers THEN UpperSeq[CHOOSE i \in DOMAIN LowerSeq : LowerSeq[i] = c] ELSE c

\* zone.state.charAt(0).toUpperCase() + zone.state.slice(1)
Capitalize(state) ==
    IF state = <<>> THEN <<>> ELSE <<toUpperCase(state[1])>> \o Tail(state)

PutIf(o, cond, k, v) == IF cond THEN Put(o, k, v) ELSE o

\* A numeric property that is present and not 0.
Truthy(o, k) == Has(o, k) /\ o[k] # 0

\* Building the metadata object raises a TypeError when three_line (or its line2,
\* whose split is called) is undefined.
MetadataThrows(nowPlaying) ==
    \/ ~Has(nowPlaying, "three_line")
    \/ ~Has(nowPlaying.three_line, "line2")

\* The metadata object of lines 122-158, for a now_playing it can be built from.
Metadata(playerName, zone, wsUrl) ==
    LET np       == zone.now_playing
        imageKey == IF Has(np, "image_key") THEN np.image_key ELSE <<"u", "n", "d", "e", "f", "i", "n", "e", "d">>
        base     == [k \in {"mpris:trackid", "mpris:length", "mpris:artUrl", "xesam:artist"} |->
                       CASE k = "mpris:trackid" -> generateTrackId(playerName, zone.zone_id, np)
                         [] k = "mpris:length"  -> IF Truthy(np, "length") THEN Micro(np.length) ELSE 0
                         [] k = "mpris:artUrl"  -> <<"h", "t", "t", "p", ":", "/", "/">> \o wsUrl \o <<"/", "i", "m", "a", "g", "e", "/">> \o imageKey
                         [] k = "xesam:artist"  -> SplitArtists(np.three_line.line2)]
        titled   == PutIf(base, Has(np.three_line, "line1"), "xesam:title", np.three_line.line1)
        albumed  == PutIf(titled, Has(np.three_line, "line3"), "xesam:album", np.three_line.line3)
        rate     == PutIf(albumed, Truthy(np, "sample_rate"), "roon:sampleRate", np.sample_rate)
        depth    == PutIf(rate, Truthy(np, "bit_depth"), "roon:bitDepth", np.bit_depth)
        bitrate  == PutIf(depth, Truthy(np, "bitrate"), "roon:bitrate", np.bitrate)
        format   == PutIf(bitrate, Has(np, "format") \/ Has(np, "media_format"), "roon:format",
                          IF Has(np, "format") THEN np.format ELSE np.media_format)
        source   == PutIf(format, Has(np, "source_type"), "roon:sourceType", np.source_type)
        hasOut   == /\ Has(zone, "outputs") /\ Len(zone.outputs) > 0
                    /\ Has(zone.outputs[1], "source_controls")
                    /\ Len(zone.outputs[1].source_controls) > 0
                    /\ Truthy(zone.outputs[1].source_controls[1], "sample_rate")
    IN PutIf(source, hasOut, "roon:outputSampleRate",
             zone.outputs[1].source_controls[1].sample_rate)

\* The assignments of lines 163-168 (canPlay is not assigned).
StateProps(props, zone) ==
    Put(Put(Put(Put(Put(props,
        "playbackStatus", Capitalize(zone.state)),
        "canGoNext", zone.is_next_allowed),
        "canGoPrevious", zone.is_previous_allowed),
        "canPause", zone.is_pause_allowed),
        "canSeek", zone.is_seek_allowed)

\* A projection that empties the metadata when the zone has no now_playing.
updateClearingMetadata(s, cid) ==
    LET context == s.contexts[cid]
        zone    == context.zone
        pid     == context.player
        player  == s.players[pid]
    IN IF Has(zone, "now_playing") /\ MetadataThrows(zone.now_playing)
       THEN [s EXCEPT !.threw = TRUE]
       ELSE LET withMeta == Put(player.props, "metadata",
                                IF Has(zone, "now_playing")
                                THEN Metadata(player.name, zone, context.wsUrl)
                                ELSE <<>>)
            IN [s EXCEPT !.players[pid].props = StateProps(withMeta, zone)]

\* s is the program's heap and outputs; cid a context of it. An exception raised
\* on the way leaves what was assigned before it and sets s.threw.
updatePlayerFromZone(s, cid) ==
    LET context == s.contexts[cid]
        zone    == context.zone
        pid     == context.player
        player  == s.players[pid]
    IN IF Has(zone, "now_playing") /\ MetadataThrows(zone.now_playing)
       THEN [s EXCEPT !.threw = TRUE]
       ELSE LET withMeta == PutIf(player.props, Has(zone, "now_playing"), "metadata",
                                  Metadata(player.name, zone, context.wsUrl))
            IN IF ~Has(zone, "state")
               THEN [s EXCEPT !.players[pid].props = withMeta, !.threw = TRUE]
               ELSE [s EXCEPT !.players[pid].props = StateProps(withMeta, zone)]

\* ---------------------------------- createPlayerContext / destroyPlayerContext

\* Player({name: sanitizedName, ...}) and setupPlayerEvents(player, zone.zone_id):
\* a player on the bus, no property assigned yet, its handlers bound to zoneId.
NewPlayer(sanitizedName, zoneId) ==
    [name |-> sanitizedName, zoneId |-> zoneId, _bus |-> [connected |-> TRUE],
     props |-> <<>>]

\* The context and the player are allocated at the next free heap index.
createPlayerContext(s, zone, wsUrl) ==
    LET sanitizedName == <<"r", "o", "o", "n", "_">> \o sanitizeForDBus(zone.display_name)
        id            == Len(s.players) + 1
    IN [s EXCEPT !.players  = Append(s.players, NewPlayer(sanitizedName, zone.zone_id)),
                 !.contexts = Append(s.contexts,
                                [player |-> id, zone |-> zone, sanitizedName |-> sanitizedName,
                                 wsUrl |-> wsUrl, lastReportedPosition |-> 0])]

\* if (context.player && context.player._bus) context.player._bus.disconnect()
destroyPlayerContext(s, cid) ==
    LET pid == s.contexts[cid].player
    IN IF Has(s.contexts[cid], "player") /\ Has(s.players[pid], "_bus")
       THEN [s EXCEPT !.players[pid]._bus.connected = FALSE]
       ELSE s

\* ------------------------------------------------ subscribe_zones callback

\* The guard of line 328: core is a sequence holding the paired core, if any, and
\* the core's ws the open connection, if any.
Disconnected(c) == c = <<>> \/ c[1].ws = <<>>

\* core.moo.transport.ws._url.substring(5)
BaseAddress(c) == SubSeq(c[1].ws[1], 6, Len(c[1].ws[1]))

\* An add that stores and projects the zone it is given also when the
\* identifier is known.
AddOrReplace(s, zone, wsUrl) ==
    IF zone.zone_id \in DOMAIN s.zonePlayerMap
    THEN LET cid == s.zonePlayerMap[zone.zone_id]
         IN updatePlayerFromZone([s EXCEPT !.contexts[cid].zone = zone], cid)
    ELSE LET created == createPlayerContext(s, zone, wsUrl)
             cid     == Len(created.contexts)
             stored  == [created EXCEPT !.zonePlayerMap = Put(s.zonePlayerMap, zone.zone_id, cid)]
         IN updatePlayerFromZone(stored, cid)

\* One round of the zonesToAdd loop.
AddZone(s, zone, wsUrl) ==
    IF zone.zone_id \in DOMAIN s.zonePlayerMap THEN s
    ELSE LET created == createPlayerContext(s, zone, wsUrl)
             cid     == Len(created.contexts)
             stored  == [created EXCEPT !.zonePlayerMap = Put(s.zonePlayerMap, zone.zone_id, cid)]
         IN updatePlayerFromZone(stored, cid)

\* A change that also names context and player after the delivered display
\* name.
ChangeAndRename(s, zone) ==
    IF zone.zone_id \in DOMAIN s.zonePlayerMap
    THEN LET cid     == s.zonePlayerMap[zone.zone_id]
             newName == <<"r", "o", "o", "n", "_">> \o sanitizeForDBus(zone.display_name)
         IN updatePlayerFromZone(
                [s EXCEPT !.contexts[cid].zone = zone,
                          !.contexts[cid].sanitizedName = newName,
                          !.players[s.contexts[cid].player].name = newName], cid)
    ELSE s

\* One round of the zones_changed loop.
ChangeZone(s, zone) ==
    IF zone.zone_id \in DOMAIN s.zonePlayerMap
    THEN LET cid == s.zonePlayerMap[zone.zone_id]
         IN updatePlayerFromZone([s EXCEPT !.contexts[cid].zone = zone], cid)
    ELSE s

\* A removal that drops the registry entry and leaves the player on the bus.
RemoveEntryOnly(s, zoneId) ==
    [s EXCEPT !.zonePlayerMap =
        [z \in DOMAIN s.zonePlayerMap \ {zoneId} |-> s.zonePlayerMap[z]]]

\* A removal that detaches the zone's player and empties the registry.
RemoveEveryEntry(s, zoneId) ==
    IF zoneId \in DOMAIN s.zonePlayerMap
    THEN [destroyPlayerContext(s, s.zonePlayerMap[zoneId]) EXCEPT !.zonePlayerMap = <<>>]
    ELSE s

\* One round of the zones_removed loop.
RemoveZone(s, zoneId) ==
    IF zoneId \in DOMAIN s.zonePlayerMap
    THEN LET destroyed == destroyPlayerContext(s, s.zonePlayerMap[zoneId])
         IN [destroyed EXCEPT !.zonePlayerMap =
                [z \in DOMAIN s.zonePlayerMap \ {zoneId} |-> s.zonePlayerMap[z]]]
    ELSE s

\* Lines 382-384.
SeekTolerance == 1500000

SeekThreshold == 2000000

\* A classifier that also takes a delta of exactly the threshold for a seek.
isSeekInclusive(positionMicro, lastReportedPosition) ==
    Abs(positionMicro - (lastReportedPosition + SeekTolerance)) >= SeekThreshold

isSeek(positionMicro, lastReportedPosition) ==
    Abs(positionMicro - (lastReportedPosition + SeekTolerance)) > SeekThreshold

\* player.seeked(position) on player pid.
Seeked(s, pid, position) ==
    [s EXCEPT !.seeked = Append(@, [player |-> pid, position |-> position])]

\* A round that records and exposes the position only when it notifies.
SeekChangeOnSeek(s, change) ==
    IF change.zone_id \in DOMAIN s.zonePlayerMap
    THEN LET cid           == s.zonePlayerMap[change.zone_id]
             context       == s.contexts[cid]
             positionMicro == Micro(change.seek_position)
             moved         == [s EXCEPT
                                 !.contexts[cid].lastReportedPosition = positionMicro,
                                 !.players[context.player].props =
                                     Put(s.players[context.player].props,
                                         "position", positionMicro)]
         IN IF Abs(positionMicro - (context.lastReportedPosition + SeekTolerance)) > SeekThreshold
            THEN Seeked(moved, context.player, positionMicro)
            ELSE s
    ELSE s

\* A round that also writes the reported position into the stored snapshot.
SeekChangeIntoSnapshot(s, change) ==
    IF change.zone_id \in DOMAIN s.zonePlayerMap
    THEN LET cid           == s.zonePlayerMap[change.zone_id]
             context       == s.contexts[cid]
             positionMicro == Micro(change.seek_position)
             seek          == Abs(positionMicro - (context.lastReportedPosition + SeekTolerance))
                                > SeekThreshold
             stored        == IF Has(context.zone, "now_playing")
                              THEN [s EXCEPT !.contexts[cid].zone.now_playing.seek_position =
                                                 change.seek_position]
                              ELSE s
             moved         == [stored EXCEPT
                                 !.contexts[cid].lastReportedPosition = positionMicro,
                                 !.players[context.player].props =
                                     Put(s.players[context.player].props,
                                         "position", positionMicro)]
         IN IF seek THEN Seeked(moved, context.player, positionMicro) ELSE moved
    ELSE s

\* One round of the zones_seek_changed loop.
SeekChange(s, change) ==
    IF change.zone_id \in DOMAIN s.zonePlayerMap
    THEN LET cid           == s.zonePlayerMap[change.zone_id]
             context       == s.contexts[cid]
             positionMicro == Micro(change.seek_position)
             seek          == isSeek(positionMicro, context.lastReportedPosition)
             moved         == [s EXCEPT
                                 !.contexts[cid].lastReportedPosition = positionMicro,
                                 !.players[context.player].props =
                                     Put(s.players[context.player].props,
                                         "position", positionMicro)]
         IN IF seek THEN Seeked(moved, context.player, positionMicro) ELSE moved
    ELSE s

\* The four loops of the callback, each left as soon as a round has thrown.
RECURSIVE AddAll(_, _, _, _)
AddAll(s, zones, wsUrl, i) ==
    IF i > Len(zones) \/ s.threw THEN s
    ELSE CHOOSE result \in {AddAll(t, zones, wsUrl, i + 1) :
                              t \in {AddZone(s, zones[i], wsUrl)}} : TRUE

RECURSIVE ChangeAll(_, _, _)
ChangeAll(s, zones, i) ==
    IF i > Len(zones) \/ s.threw THEN s
    ELSE CHOOSE result \in {ChangeAll(t, zones, i + 1) :
                              t \in {ChangeZone(s, zones[i])}} : TRUE

RECURSIVE RemoveAll(_, _, _)
RemoveAll(s, zoneIds, i) ==
    IF i > Len(zoneIds) \/ s.threw THEN s
    ELSE CHOOSE result \in {RemoveAll(t, zoneIds, i + 1) :
                              t \in {RemoveZone(s, zoneIds[i])}} : TRUE

RECURSIVE SeekChangeAll(_, _, _)
SeekChangeAll(s, changes, i) ==
    IF i > Len(changes) \/ s.threw THEN s
    ELSE CHOOSE result \in {SeekChangeAll(t, changes, i + 1) :
                              t \in {SeekChange(s, changes[i])}} : TRUE

\* data.zones || data.zones_added || []
zonesToAdd(data) ==
    IF Has(data, "zones") THEN data.zones
    ELSE IF Has(data, "zones_added") THEN data.zones_added
    ELSE <<>>

Section(data, key) == IF Has(data, key) THEN data[key] ELSE <<>>

\* The callback given to transport.subscribe_zones, run on heap s with core c.
subscribeCallback(s, c, data) ==
    IF Disconnected(c) THEN s
    ELSE LET added   == AddAll(s, zonesToAdd(data), BaseAddress(c), 1)
             changed == ChangeAll(added, Section(data, "zones_changed"), 1)
             removed == RemoveAll(changed, Section(data, "zones_removed"), 1)
         IN SeekChangeAll(removed, Section(data, "zones_seek_changed"), 1)

\* ------------------------------------------------------ setupPlayerEvents

\* offset / 1000000, in the model's unit of seconds.
ToSec(micro) == micro \div 500000

Call(s, call) == [s EXCEPT !.upstream = Append(@, call)]

\* A handler that sends the command with the snapshot of the context created
\* with its player, in the registry or not.
ControlOwnContext(s, c, pid, eventName) ==
    IF c # <<>>
    THEN Call(s, [call |-> "control", zone |-> s.contexts[pid].zone, command |-> eventName])
    ELSE s

\* A handler that sends the command to some zone of the registry.
ControlSomeZone(s, c, pid, eventName) ==
    IF s.players[pid].zoneId \in DOMAIN s.zonePlayerMap /\ c # <<>>
    THEN LET zoneId == CHOOSE z \in DOMAIN s.zonePlayerMap : TRUE
         IN Call(s, [call |-> "control", zone |-> s.contexts[s.zonePlayerMap[zoneId]].zone,
                     command |-> eventName])
    ELSE s

\* The handler of 'playpause', 'stop', 'next' and 'previous' bound to player pid.
TransportControl(s, c, pid, eventName) ==
    LET zoneId == s.players[pid].zoneId
    IN IF zoneId \in DOMAIN s.zonePlayerMap /\ c # <<>>
       THEN Call(s, [call |-> "control", zone |-> s.contexts[s.zonePlayerMap[zoneId]].zone,
                     command |-> eventName])
       ELSE s

\* The first early return alone: the zone's is_seek_allowed is not consulted.
NoContextOrCore(s, c, zoneId) ==
    \/ zoneId \notin DOMAIN s.zonePlayerMap
    \/ c = <<>>

\* The two early returns shared by the 'seek' and 'position' handlers.
SeekRefused(s, c, zoneId) ==
    \/ zoneId \notin DOMAIN s.zonePlayerMap
    \/ c = <<>>
    \/ ~s.contexts[s.zonePlayerMap[zoneId]].zone.is_seek_allowed

\* The 'seek' handler bound to player pid: the completion callback keeps the
\* context it looked up (by reference) and the player it was bound to.
SeekHandler(s, c, pid, offset) ==
    LET zoneId == s.players[pid].zoneId
    IN IF SeekRefused(s, c, zoneId) THEN s
       ELSE LET cid    == s.zonePlayerMap[zoneId]
                called == Call(s, [call |-> "seek", zone |-> s.contexts[cid].zone,
                                   how |-> "relative", seconds |-> ToSec(offset)])
            IN [called EXCEPT !.pending = Append(@,
                    [how |-> "relative", context |-> cid, player |-> pid, amount |-> offset])]

\* The 'position' handler bound to player pid.
PositionHandler(s, c, pid, position) ==
    LET zoneId == s.players[pid].zoneId
    IN IF SeekRefused(s, c, zoneId) THEN s
       ELSE LET cid    == s.zonePlayerMap[zoneId]
                called == Call(s, [call |-> "seek", zone |-> s.contexts[cid].zone,
                                   how |-> "absolute", seconds |-> ToSec(position)])
            IN [called EXCEPT !.pending = Append(@,
                    [how |-> "absolute", context |-> cid, player |-> pid, amount |-> position])]

\* context.zone.now_playing?.seek_position || 0
CurrentPos(zone) ==
    IF Has(zone, "now_playing") /\ Truthy(zone.now_playing, "seek_position")
    THEN zone.now_playing.seek_position
    ELSE 0

\* A completion that always notifies of the stored position plus the amount.
SeekCallbackFromStored(s, p, err) ==
    IF err THEN s
    ELSE Seeked(s, p.player,
                Micro(Max0(CurrentPos(s.contexts[p.context].zone) + ToSec(p.amount))))

\* A completion that notifies whether the call failed or not.
SeekCallbackAnyway(s, p, err) ==
    IF p.how = "relative"
    THEN Seeked(s, p.player,
                Micro(Max0(CurrentPos(s.contexts[p.context].zone) + ToSec(p.amount))))
    ELSE Seeked(s, p.player, p.amount)

\* The completion callback of the upstream seek call p, given err or not.
SeekCallback(s, p, err) ==
    IF err THEN s
    ELSE IF p.how = "relative"
    THEN LET currentPos    == CurrentPos(s.contexts[p.context].zone)
             newPosSeconds == Max0(currentPos + ToSec(p.amount))
         IN Seeked(s, p.player, Micro(newPosSeconds))
    ELSE Seeked(s, p.player, p.amount)

\* A handler that forwards the event's name as a command.
LoggedForwarded(s, pid, eventName) ==
    Call(s, [call |-> "control", player |-> pid, command |-> eventName])

\* The handlers that only write a log line.
LoggedOnly(s, pid, eventName) == s

\* player.getPosition()
getPosition(s, pid) ==
    LET zoneId == s.players[pid].zoneId
    IN IF zoneId \in DOMAIN s.zonePlayerMap
          /\ Has(s.contexts[s.zonePlayerMap[zoneId]].zone, "now_playing")
       THEN Micro(s.contexts[s.zonePlayerMap[zoneId]].zone.now_playing.seek_position)
       ELSE 0

\* ------------------------------------------------------------ core_unpaired

RECURSIVE DestroyAll(_, _)
DestroyAll(s, zoneIds) ==
    IF zoneIds = {} THEN s
    ELSE LET z == CHOOSE x \in zoneIds : TRUE
         IN DestroyAll(destroyPlayerContext(s, s.zonePlayerMap[z]), zoneIds \ {z})

\* A teardown that clears the registry and detaches nothing.
ClearOnly(s) == [s EXCEPT !.zonePlayerMap = <<>>]

coreUnpaired(s) ==
    [DestroyAll(s, DOMAIN s.zonePlayerMap) EXCEPT !.zonePlayerMap = <<>>]

\* ------------------------------------------------------------------- state

TransportEvents == {"playpause", "stop", "next", "previous"}

LoggedEvents == {"raise", "pause", "play", "open", "volume", "loopStatus", "shuffle"}

VARIABLES
    argv,           \* the command line: [pause_all |-> BOOLEAN]
    core,           \* <<>> (undefined) or <<the paired core>>, a core being [ws |-> <<>> or <<url>>]
    subscribed,     \* transport.subscribe_zones has registered the callback
    pauseAll,       \* a pause_all call awaits its completion callback
    exitCode,       \* <<>> while the process runs, <<status>> once it has exited
    zonePlayerMap,  \* zone_id -> index of its context in contexts
    contexts,       \* the context objects created so far
    players,        \* the player objects created so far
    pending,        \* upstream seek calls awaiting their completion callback
    seeked,         \* the "seeked" notifications emitted by the last step
    upstream,       \* the upstream calls issued by the last step
    threw,          \* the last step ended by an exception leaving its handler
    last            \* the last step: the handler that ran and its argument

vars == <<argv, core, subscribed, pauseAll, exitCode, zonePlayerMap, contexts, players,
          pending, seeked, upstream, threw, last>>

\* The heap a handler starts from: nothing emitted, nothing thrown yet.
Heap ==
    [zonePlayerMap |-> zonePlayerMap, contexts |-> contexts, players |-> players,
     pending |-> pending, seeked |-> <<>>, upstream |-> <<>>, threw |-> FALSE]

\* The heap a handler leaves, if the model's bounds hold it.
Commit(s, step) ==
    /\ Len(s.players) <= MaxPlayers
    /\ Len(s.pending) <= MaxPending
    /\ zonePlayerMap' = s.zonePlayerMap
    /\ contexts' = s.contexts
    /\ players' = s.players
    /\ pending' = s.pending
    /\ seeked' = s.seeked
    /\ upstream' = s.upstream
    /\ threw' = s.threw
    /\ last' = step

Running == exitCode = <<>>

Init ==
    /\ argv \in [pause_all : BOOLEAN]
    /\ core = <<>>
    /\ subscribed = FALSE
    /\ pauseAll = FALSE
    /\ exitCode = <<>>
    /\ zonePlayerMap = <<>>
    /\ contexts = <<>>
    /\ players = <<>>
    /\ pending = <<>>
    /\ seeked = <<>>
    /\ upstream = <<>>
    /\ threw = FALSE
    /\ last = [op |-> "start"]

\* The process started without --pause-all.
InitNormal == Init /\ ~argv.pause_all

\* ----------------------------------------------------------------- actions

\* core_paired in --pause-all mode; the library pairs one core at a time.
CorePairedPauseAll(url) ==
    /\ Running /\ core = <<>> /\ argv.pause_all
    /\ core' = <<[ws |-> <<url>>]>>
    /\ pauseAll' = TRUE
    /\ Commit(Call(Heap, [call |-> "pause_all"]), [op |-> "core_paired"])
    /\ UNCHANGED <<argv, subscribed, exitCode>>

\* core_paired in normal mode.
CorePaired(url) ==
    /\ Running /\ core = <<>> /\ ~argv.pause_all
    /\ core' = <<[ws |-> <<url>>]>>
    /\ subscribed' = TRUE
    /\ Commit(Heap, [op |-> "core_paired"])
    /\ UNCHANGED <<argv, pauseAll, exitCode>>

\* A completion that exits with status 0 whatever the outcome.
ExitsClean(err) == <<0>>

\* The status the completion callback of pause_all exits with.
pauseAllCallback(err) == IF err THEN <<1>> ELSE <<0>>

\* The completion callback of pause_all.
PauseAllDone(err) ==
    /\ Running /\ pauseAll
    /\ pauseAll' = FALSE
    /\ exitCode' = pauseAllCallback(err)
    /\ Commit(Heap, [op |-> "pause_all_done", err |-> err])
    /\ UNCHANGED <<argv, core, subscribed>>

\* The connection of the paired core closes: core.moo.transport.ws is gone
\* before core_unpaired is called.
WsClosed ==
    /\ Running /\ core # <<>> /\ core[1].ws # <<>>
    /\ core' = <<[ws |-> <<>>]>>
    /\ Commit(Heap, [op |-> "ws_closed"])
    /\ UNCHANGED <<argv, subscribed, pauseAll, exitCode>>

CoreUnpaired ==
    /\ Running /\ core # <<>>
    /\ core' = <<>>
    /\ Commit(coreUnpaired(Heap), [op |-> "core_unpaired"])
    /\ UNCHANGED <<argv, subscribed, pauseAll, exitCode>>

\* The subscription callback runs on a payload (also one that was on its way
\* when the core was lost). The program catches no exception: one that leaves
\* the callback is the caller's, which swallows it or lets the process die.
ZoneEvent(data) ==
    /\ Running /\ subscribed
    /\ LET s == subscribeCallback(Heap, core, data)
       IN /\ Commit(s, [op |-> "zones", data |-> data])
          /\ exitCode' \in IF s.threw THEN {<<>>, <<1>>} ELSE {<<>>}
    /\ UNCHANGED <<argv, core, subscribed, pauseAll>>

\* A control event reaches player pid (also one that was on its way when the
\* player was taken off the bus).
Transport(pid, eventName) ==
    /\ Running
    /\ Commit(TransportControl(Heap, core, pid, eventName),
              [op |-> eventName, player |-> pid])
    /\ UNCHANGED <<argv, core, subscribed, pauseAll, exitCode>>

Seek(pid, offset) ==
    /\ Running
    /\ Commit(SeekHandler(Heap, core, pid, offset),
              [op |-> "seek", player |-> pid, offset |-> offset])
    /\ UNCHANGED <<argv, core, subscribed, pauseAll, exitCode>>

Position(pid, position) ==
    /\ Running
    /\ Commit(PositionHandler(Heap, core, pid, position),
              [op |-> "position", player |-> pid, position |-> position])
    /\ UNCHANGED <<argv, core, subscribed, pauseAll, exitCode>>

\* The upstream transport completes the i-th pending seek call.
SeekDone(i, err) ==
    /\ Running
    /\ LET s == [Heap EXCEPT !.pending = SubSeq(pending, 1, i - 1)
                                           \o SubSeq(pending, i + 1, Len(pending))]
       IN Commit(SeekCallback(s, pending[i], err),
                 [op |-> "seek_done", call |-> pending[i], err |-> err])
    /\ UNCHANGED <<argv, core, subscribed, pauseAll, exitCode>>

Logged(pid, eventName) ==
    /\ Running
    /\ Commit(LoggedOnly(Heap, pid, eventName), [op |-> eventName, player |-> pid])
    /\ UNCHANGED <<argv, core, subscribed, pauseAll, exitCode>>

Quit(pid) ==
    /\ Running
    /\ Commit(Heap, [op |-> "quit", player |-> pid])
    /\ UNCHANGED <<argv, core, subscribed, pauseAll, exitCode>>

\* The player library reads the position of player pid.
GetPosition(pid) ==
    /\ Running
    /\ Commit(Heap, [op |-> "getPosition", player |-> pid, value |-> getPosition(Heap, pid)])
    /\ UNCHANGED <<argv, core, subscribed, pauseAll, exitCode>>

\* ---------------------------------------------------------------- payloads

\* The data argument of the subscription callback with one section of one
\* entry, drawn from the zones zs, the identifiers ids, the seek reports chs.
DeliverZones(zs) == \E zone \in zs : ZoneEvent([zones |-> <<zone>>])

DeliverAdded(zs) == \E zone \in zs : ZoneEvent([zones_added |-> <<zone>>])

DeliverChanged(zs) == \E zone \in zs : ZoneEvent([zones_changed |-> <<zone>>])

DeliverRemoved(ids) == \E zoneId \in ids : ZoneEvent([zones_removed |-> <<zoneId>>])

DeliverSeekChanged(chs) == \E change \in chs : ZoneEvent([zones_seek_changed |-> <<change>>])

\* The initial list with two zones.
DeliverTwoZones(zs) ==
    \E first \in zs, second \in zs : ZoneEvent([zones |-> <<first, second>>])

\* A payload with two sections.
DeliverChangedRemoved(zs, ids) ==
    \E zone \in zs, zoneId \in ids :
        ZoneEvent([zones_changed |-> <<zone>>, zones_removed |-> <<zoneId>>])

DeliverAddedSeekChanged(zs, chs) ==
    \E zone \in zs, change \in chs :
        ZoneEvent([zones_added |-> <<zone>>, zones_seek_changed |-> <<change>>])

\* A seek section with two reports.
DeliverTwoSeekChanged(chs) ==
    \E first \in chs, second \in chs :
        ZoneEvent([zones_seek_changed |-> <<first, second>>])

\* ------------------------------------------------- the program at large

\* Two zones that play; zones come, change, go and report 45 s; a control
\* client sends one event of each handler; cores pair, lose their connection
\* and unpair, in either mode of the command line.
Zones == {ZonePlaying(Z1), ZonePlaying(Z2)}

SeekChanges == [zone_id : ZoneIds, seek_position : {Sec(45)}]

Next ==
    \/ \E url \in WsUrls : CorePairedPauseAll(url)
    \/ \E url \in WsUrls : CorePaired(url)
    \/ \E err \in BOOLEAN : PauseAllDone(err)
    \/ WsClosed
    \/ CoreUnpaired
    \/ DeliverZones(Zones)
    \/ DeliverAdded(Zones)
    \/ DeliverChanged(Zones)
    \/ DeliverRemoved(ZoneIds)
    \/ DeliverSeekChanged(SeekChanges)
    \/ \E pid \in DOMAIN players : Transport(pid, "next")
    \/ \E pid \in DOMAIN players, offset \in SeekOffsets : Seek(pid, offset)
    \/ \E pid \in DOMAIN players, position \in SetPositions : Position(pid, position)
    \/ \E i \in DOMAIN pending, err \in BOOLEAN : SeekDone(i, err)
    \/ \E pid \in DOMAIN players : Logged(pid, "raise")
    \/ \E pid \in DOMAIN players : Quit(pid)

Spec == Init /\ [][Next]_vars

\* The players created for zoneId that are on the bus.
Attached(zoneId) ==
    {pid \in DOMAIN players :
        players[pid].zoneId = zoneId /\ players[pid]._bus.connected}

\* C1: after any sequence of zone events, control events and core_unpaired
\* calls the registry holds at most one context per zone identifier (distinct
\* identifiers have distinct contexts, each holding a snapshot of its own
\* zone), and the players created for an identifier and not yet detached are
\* exactly one, the registry context's player, if the identifier is in the
\* registry, and none otherwise.
C1_OnePlayerPerZone ==
    /\ \A y, z \in DOMAIN zonePlayerMap : zonePlayerMap[y] = zonePlayerMap[z] => y = z
    /\ \A z \in DOMAIN zonePlayerMap : contexts[zonePlayerMap[z]].zone.zone_id = z
    /\ \A z \in ZoneIds :
          /\ z \in DOMAIN zonePlayerMap =>
                /\ Attached(z) = {contexts[zonePlayerMap[z]].player}
                /\ Cardinality(Attached(z)) = 1
          /\ z \notin DOMAIN zonePlayerMap => Cardinality(Attached(z)) = 0

\* A zone was removed and added again: its first player is detached, its second
\* one attached and in the registry.
C1_Readded ==
    /\ Cardinality(DOMAIN zonePlayerMap) = 1
    /\ \E p, q \in DOMAIN players :
          /\ players[p].zoneId = players[q].zoneId
          /\ ~players[p]._bus.connected
          /\ players[q]._bus.connected
          /\ players[q].zoneId \in DOMAIN zonePlayerMap

\* C16: a zones_removed entry for an identifier in the registry takes the
\* player of that zone's context off the bus and removes that identifier, and
\* no other, from the registry; contexts, the other players and the other
\* registry entries stay as they were. An entry for an identifier not in the
\* registry raises nothing and changes neither registry, contexts nor players.
C16_RemovedExactly ==
    [][(/\ last'.op = "zones"
        /\ ~Disconnected(core)
        /\ DOMAIN last'.data = {"zones_removed"})
       => \A i \in DOMAIN last'.data.zones_removed :
             LET zoneId == last'.data.zones_removed[i]
             IN IF zoneId \in DOMAIN zonePlayerMap
                THEN LET pid == contexts[zonePlayerMap[zoneId]].player
                     IN /\ ~threw'
                        /\ DOMAIN zonePlayerMap' = DOMAIN zonePlayerMap \ {zoneId}
                        /\ \A z \in DOMAIN zonePlayerMap' : zonePlayerMap'[z] = zonePlayerMap[z]
                        /\ contexts' = contexts
                        /\ DOMAIN players' = DOMAIN players
                        /\ ~players'[pid]._bus.connected
                        /\ \A q \in DOMAIN players \ {pid} : players'[q] = players[q]
                ELSE /\ ~threw'
                     /\ UNCHANGED <<zonePlayerMap, contexts, players>>]_vars

\* The first zone was removed while the second one stays in the registry with
\* its player on the bus.
C16_FirstOfTwoRemoved ==
    /\ last.op = "zones"
    /\ last.data = [zones_removed |-> <<Z1>>]
    /\ DOMAIN zonePlayerMap = {Z2}
    /\ players[contexts[zonePlayerMap[Z2]].player]._bus.connected
    /\ \E pid \in DOMAIN players :
          players[pid].zoneId = Z1 /\ ~players[pid]._bus.connected

\* C20: in pause-all mode nothing is ever subscribed and no context, player or
\* registry entry ever exists; a core_paired call issues exactly one upstream
\* call, pause_all, and does not end the process; the process ends only when
\* the call completes, with status 1 if it completed with an error and with
\* status 0 if not.
C20_PauseAllOnly ==
    /\ [](argv.pause_all
           => /\ ~subscribed
              /\ zonePlayerMap = <<>> /\ contexts = <<>> /\ players = <<>>
              /\ exitCode # <<>> => last.op = "pause_all_done"
              /\ last.op = "pause_all_done" => exitCode = <<IF last.err THEN 1 ELSE 0>>)
    /\ [][(argv.pause_all /\ last'.op = "core_paired")
           => upstream' = <<[call |-> "pause_all"]>> /\ exitCode' = <<>>]_vars

\* The pause_all call of a pause-all run completed with an error.
C20_PauseAllFailed ==
    /\ argv.pause_all
    /\ last.op = "pause_all_done"
    /\ last.err
    /\ exitCode = <<1>>

\* C3: when the zone of an upstream seek call has left the registry before the
\* call completes, the completion callback emits no "seeked" notification and
\* changes no registry or player state, whether the call succeeded or failed.
C3_StaleCompletionSilent ==
    [][(/\ last'.op = "seek_done"
        /\ players[last'.call.player].zoneId \notin DOMAIN zonePlayerMap)
       => /\ seeked' = <<>>
          /\ UNCHANGED <<zonePlayerMap, contexts, players>>]_vars

\* C9: while no core is paired, after core_unpaired, the registry is empty and
\* no player is on the bus; a zone event that still arrives creates no player,
\* and no step issues an upstream call.
C9_NothingWithoutCore ==
    /\ [](core = <<>> =>
            /\ zonePlayerMap = <<>>
            /\ \A pid \in DOMAIN players : ~players[pid]._bus.connected
            /\ upstream = <<>>)
    /\ [][(core = <<>> /\ core' = <<>>) =>
            /\ Len(players') = Len(players)
            /\ upstream' = <<>>]_vars

\* A core was lost while players existed, and afterwards a control event
\* reached one of them.
C9_ControlAfterLoss ==
    /\ core = <<>>
    /\ players # <<>>
    /\ last.op \in {"next", "seek", "position"}

\* --------------------------------------------- one zone and its snapshots

\* One zone, first seen playing or idle, whose snapshot changes between the
\* two; its position is reported; a client seeks by offset and to a position.
SnapshotZones == {ZonePlaying(Z1), ZoneIdle(Z1)}

NextSnapshot ==
    \/ \E url \in WsUrls : CorePaired(url)
    \/ CoreUnpaired
    \/ DeliverZones(SnapshotZones)
    \/ DeliverAdded(SnapshotZones)
    \/ DeliverChanged(SnapshotZones)
    \/ DeliverRemoved({Z1})
    \/ DeliverSeekChanged({[zone_id |-> Z1, seek_position |-> Sec(45)]})
    \/ \E pid \in DOMAIN players, offset \in SeekOffsets : Seek(pid, offset)
    \/ \E pid \in DOMAIN players, position \in SetPositions : Position(pid, position)
    \/ \E i \in DOMAIN pending, err \in BOOLEAN : SeekDone(i, err)

SpecSnapshot == InitNormal /\ [][NextSnapshot]_vars

\* The step handled an add payload (the initial list or zones_added) of zone.
AddedOnly(step, zone) ==
    /\ step.op = "zones"
    /\ step.data = [zones |-> <<zone>>] \/ step.data = [zones_added |-> <<zone>>]

\* C2: adding a zone whose identifier is already in the registry creates no
\* player and leaves the registry, the identifier's context (its player, stored
\* snapshot, base address and lastReportedPosition) and the player (its
\* projected properties) as they were, whatever zone data the add carries.
C2_DuplicateAddIsNoOp ==
    [][\A zone \in SnapshotZones :
         (AddedOnly(last', zone) /\ zone.zone_id \in DOMAIN zonePlayerMap)
         => LET cid == zonePlayerMap[zone.zone_id]
            IN /\ Len(players') = Len(players)
               /\ zonePlayerMap' = zonePlayerMap
               /\ contexts'[cid] = contexts[cid]
               /\ players'[contexts[cid].player] = players[contexts[cid].player]]_vars

\* A connected handler was given zones_added for a known identifier with zone
\* data that differ from the stored snapshot, after a position report.
C2_DuplicateWithOtherData ==
    /\ last.op = "zones"
    /\ ~Disconnected(core)
    /\ \E zone \in SnapshotZones :
          /\ last.data = [zones_added |-> <<zone>>]
          /\ zone.zone_id \in DOMAIN zonePlayerMap
          /\ contexts[zonePlayerMap[zone.zone_id]].zone # zone
          /\ contexts[zonePlayerMap[zone.zone_id]].lastReportedPosition # 0

\* C6: a 'seek' or 'position' event on the player of a zone whose snapshot,
\* as stored when the event arrives, has is_seek_allowed false issues no
\* upstream call, starts no pending call and emits no "seeked".
C6_NoSeekWhenDisallowed ==
    [][(/\ last'.op \in {"seek", "position"}
        /\ players[last'.player].zoneId \in DOMAIN zonePlayerMap
        /\ ~contexts[zonePlayerMap[players[last'.player].zoneId]].zone.is_seek_allowed)
       => /\ upstream' = <<>>
          /\ seeked' = <<>>
          /\ pending' = pending]_vars

\* A 'position' event reached, with a core paired, the player of a zone that was
\* created under another display name (with seeking allowed) and whose snapshot
\* was since replaced by one that disallows seeking.
C6_DisallowedByChange ==
    /\ last.op = "position"
    /\ core # <<>>
    /\ players[last.player].zoneId \in DOMAIN zonePlayerMap
    /\ LET context == contexts[zonePlayerMap[players[last.player].zoneId]]
       IN /\ ~context.zone.is_seek_allowed
          /\ context.sanitizedName = <<"r", "o", "o", "n", "_">> \o sanitizeForDBus(NameOf(Z1))
          /\ players[context.player].props.canSeek = FALSE

\* ------------------------------------------------ the transport controls

\* Two zones, the first one changing its snapshot; a client sends each of the
\* four transport events to each player.
TransportZones == {ZonePlaying(Z1), ZoneIdle(Z1), ZonePlaying(Z2)}

NextTransport ==
    \/ \E url \in WsUrls : CorePaired(url)
    \/ CoreUnpaired
    \/ DeliverZones(TransportZones)
    \/ DeliverChanged(TransportZones)
    \/ DeliverRemoved(ZoneIds)
    \/ \E pid \in DOMAIN players, eventName \in TransportEvents : Transport(pid, eventName)

SpecTransport == InitNormal /\ [][NextTransport]_vars

\* C10: a playpause, stop, next or previous event on a player created for a
\* zone that is in the registry, while a core is paired, issues exactly one
\* upstream call: control, with the event's name as command and the snapshot
\* the registry stores for that zone as zone.
C10_ControlTargetsOwnZone ==
    [][(/\ last'.op \in TransportEvents
        /\ players[last'.player].zoneId \in DOMAIN zonePlayerMap
        /\ core # <<>>)
       => upstream' = <<[call |-> "control",
                         zone |-> contexts[zonePlayerMap[players[last'.player].zoneId]].zone,
                         command |-> last'.op]>>]_vars

\* With both zones in the registry, the zone added second having had its
\* snapshot replaced, 'previous' on the player of that zone issued a call
\* with the replaced snapshot.
C10_SecondZoneChanged ==
    /\ last.op = "previous"
    /\ Cardinality(DOMAIN zonePlayerMap) = 2
    /\ last.player = 2
    /\ players[2].zoneId = Z1
    /\ upstream # <<>>
    /\ upstream[1].zone = ZoneIdle(Z1)
    /\ contexts[zonePlayerMap[Z1]].sanitizedName = <<"r", "o", "o", "n", "_">> \o sanitizeForDBus(NameOf(Z1))

\* --------------------------------------------------- the position reports

\* One zone that plays, and an identifier that is never added; positions of
\* 10 s, 11 s, 13.5 s, 30 s and 45 s are reported for either, alone, two in
\* one payload, or in the payload that adds the zone.
SeekZones == {ZonePlaying(Z1)}

SeekReports == [zone_id : ZoneIds, seek_position : SeekPositions]

SeekReportsOfZone == [zone_id : {Z1}, seek_position : SeekPositions]

NextSeek ==
    \/ \E url \in WsUrls : CorePaired(url)
    \/ CoreUnpaired
    \/ DeliverZones(SeekZones)
    \/ DeliverRemoved({Z1})
    \/ DeliverSeekChanged(SeekReports)
    \/ DeliverTwoSeekChanged(SeekReportsOfZone)
    \/ DeliverAddedSeekChanged(SeekZones, SeekReportsOfZone)

SpecSeek == InitNormal /\ [][NextSeek]_vars

\* The zones_seek_changed entries for zoneId that the step's handler, with a
\* connection, was given.
ReportsFor(step, zoneId) ==
    IF step.op = "zones" /\ ~Disconnected(core) /\ Has(step.data, "zones_seek_changed")
    THEN SelectSeq(step.data.zones_seek_changed, LAMBDA change : change.zone_id = zoneId)
    ELSE <<>>

\* The positions, in microseconds, the rule of the specification notifies of
\* when the entries reports[i..] follow a last reported position of L.
RECURSIVE Notified(_, _, _)
Notified(L, reports, i) ==
    IF i > Len(reports) THEN <<>>
    ELSE LET p == reports[i].seek_position * 500000
         IN (IF Abs(p - (L + 1500000)) > 2000000 THEN <<p>> ELSE <<>>)
                \o Notified(p, reports, i + 1)

\* C7: a zones_seek_changed entry of a known zone with position p, the zone's
\* lastReportedPosition being L, emits "seeked" with p on the zone's player if
\* and only if |p - (L + 1500000)| > 2000000; L is 0 for a zone the same
\* payload added and the entry's p for the entry after it.
C7_SeekedIffBeyondThreshold ==
    [][\A z \in ZoneIds :
         (ReportsFor(last', z) # <<>> /\ z \in DOMAIN zonePlayerMap')
         => LET L   == IF z \in DOMAIN zonePlayerMap
                       THEN contexts[zonePlayerMap[z]].lastReportedPosition ELSE 0
                pid == contexts'[zonePlayerMap'[z]].player
                exp == Notified(L, ReportsFor(last', z), 1)
            IN /\ Len(seeked') = Len(exp)
               /\ \A i \in DOMAIN exp : seeked'[i] = [player |-> pid, position |-> exp[i]]]_vars

\* After a report of 10 s a report of 13.5 s, 2000000 microseconds from the
\* expected 11.5 s, was handled for a known zone and emitted nothing.
C7_ExactlyThreshold ==
    /\ last.op = "zones"
    /\ ~Disconnected(core)
    /\ Z1 \in DOMAIN zonePlayerMap
    /\ last.data = [zones_seek_changed |-> <<[zone_id |-> Z1, seek_position |-> Sec(10)],
                                             [zone_id |-> Z1, seek_position |-> Sec(13) + 1]>>]
    /\ \A i \in DOMAIN seeked : seeked[i].position # 13500000

\* C8: the lastReportedPosition of a zone in the registry is 0 when its context
\* is created and changes only by a zones_seek_changed entry for the zone;
\* after such an entry with seek_position s it and the player's position are
\* s * 1000000, notified or not; entries for identifiers that are not in the
\* registry change neither registry, context nor player and emit nothing.
C8_PositionFollowsReports ==
    [][\A z \in ZoneIds :
         LET reports == ReportsFor(last', z)
         IN /\ (z \in DOMAIN zonePlayerMap' /\ reports = <<>>)
                => contexts'[zonePlayerMap'[z]].lastReportedPosition =
                     IF z \in DOMAIN zonePlayerMap /\ zonePlayerMap'[z] = zonePlayerMap[z]
                     THEN contexts[zonePlayerMap[z]].lastReportedPosition
                     ELSE 0
            /\ (z \in DOMAIN zonePlayerMap' /\ reports # <<>>)
                => LET context == contexts'[zonePlayerMap'[z]]
                       micro   == reports[Len(reports)].seek_position * 500000
                   IN /\ context.lastReportedPosition = micro
                      /\ players'[context.player].props.position = micro
            /\ (/\ reports # <<>>
                /\ DOMAIN last'.data = {"zones_seek_changed"}
                /\ \A i \in DOMAIN last'.data.zones_seek_changed :
                      last'.data.zones_seek_changed[i].zone_id \notin DOMAIN zonePlayerMap)
                => /\ UNCHANGED <<zonePlayerMap, contexts, players>>
                   /\ seeked' = <<>>]_vars

\* A report of 45 s for a known zone was handled and emitted nothing: the
\* context and the player hold 45000000.
C8_FortyFiveSeconds ==
    /\ last.op = "zones"
    /\ ~Disconnected(core)
    /\ Z1 \in DOMAIN zonePlayerMap
    /\ last.data = [zones_seek_changed |-> <<[zone_id |-> Z1, seek_position |-> Sec(45)]>>]
    /\ seeked = <<>>
    /\ contexts[zonePlayerMap[Z1]].lastReportedPosition = 45000000
    /\ players[contexts[zonePlayerMap[Z1]].player].props.position = 45000000

\* ------------------------------------- a now_playing without three_line

\* Two zones, the first one also with a now_playing record that lacks
\* three_line; the initial list holds one zone or two, and a payload may hold
\* a changed zone and a removed identifier.
MalformedZones == {ZonePlaying(Z1), ZoneMalformed(Z1), ZonePlaying(Z2)}

NextMalformed ==
    \/ \E url \in WsUrls : CorePaired(url)
    \/ CoreUnpaired
    \/ DeliverZones(MalformedZones)
    \/ DeliverTwoZones({ZoneMalformed(Z1), ZonePlaying(Z2)})
    \/ DeliverChanged(MalformedZones)
    \/ DeliverRemoved(ZoneIds)
    \/ DeliverChangedRemoved({ZoneMalformed(Z1)}, {Z2})

SpecMalformed == InitNormal /\ [][NextMalformed]_vars

\* The player of the registry context of zoneId shows the state of the stored
\* snapshot.
Projected(zoneId) ==
    LET context == contexts[zonePlayerMap[zoneId]]
        props   == players[context.player].props
    IN /\ \A k \in {"playbackStatus", "canGoNext", "canGoPrevious", "canPause", "canSeek"} :
             Has(props, k)
       /\ props.playbackStatus = Capitalize(context.zone.state)
       /\ props.canGoNext = context.zone.is_next_allowed
       /\ props.canGoPrevious = context.zone.is_previous_allowed
       /\ props.canPause = context.zone.is_pause_allowed
       /\ props.canSeek = context.zone.is_seek_allowed

\* C4: a zone event handled with a connection raises nothing out of the
\* handler, also when a zone's now_playing lacks three_line: every zone of the
\* add section is in the registry afterwards unless the payload removes it,
\* every identifier of the removed section is out of it, and the players of
\* the registry show the status and the flags of their snapshots.
C4_MalformedHandled ==
    (last.op = "zones" /\ ~Disconnected(core))
    => /\ ~threw
       /\ \A i \in DOMAIN zonesToAdd(last.data) :
             \/ zonesToAdd(last.data)[i].zone_id \in DOMAIN zonePlayerMap
             \/ zonesToAdd(last.data)[i].zone_id \in Range(Section(last.data, "zones_removed"))
       /\ \A i \in DOMAIN Section(last.data, "zones_removed") :
             Section(last.data, "zones_removed")[i] \notin DOMAIN zonePlayerMap
       /\ \A i \in DOMAIN Section(last.data, "zones_changed") :
             LET zone == Section(last.data, "zones_changed")[i]
             IN zone.zone_id \in DOMAIN zonePlayerMap
                => contexts[zonePlayerMap[zone.zone_id]].zone = zone
       /\ \A z \in DOMAIN zonePlayerMap : Projected(z)

\* C5: between two runs of the zone-event handler, the player of every context
\* in the registry shows the playback status and the four capability flags of
\* the context's stored snapshot.
C5_RegistryProjected ==
    \A z \in DOMAIN zonePlayerMap : Projected(z)

\* C15: a zones_changed entry for a zone in the registry stores the delivered
\* snapshot in the zone's context and shows its playback status and its
\* capability flags on the same player, no player being created and nothing
\* raised; an entry for an identifier not in the registry raises nothing and
\* leaves registry, contexts and players as they were.
C15_ChangedReprojected ==
    [][(/\ last'.op = "zones"
        /\ ~Disconnected(core)
        /\ DOMAIN last'.data = {"zones_changed"})
       => \A i \in DOMAIN last'.data.zones_changed :
             LET zone == last'.data.zones_changed[i]
             IN IF zone.zone_id \in DOMAIN zonePlayerMap
                THEN LET cid   == zonePlayerMap[zone.zone_id]
                         props == players'[contexts[cid].player].props
                     IN /\ ~threw'
                        /\ zonePlayerMap' = zonePlayerMap
                        /\ Len(players') = Len(players)
                        /\ Len(contexts') = Len(contexts)
                        /\ contexts'[cid] = [contexts[cid] EXCEPT !.zone = zone]
                        /\ props.playbackStatus = Capitalize(zone.state)
                        /\ props.canGoNext = zone.is_next_allowed
                        /\ props.canGoPrevious = zone.is_previous_allowed
                        /\ props.canPause = zone.is_pause_allowed
                        /\ props.canSeek = zone.is_seek_allowed
                ELSE /\ ~threw'
                     /\ UNCHANGED <<zonePlayerMap, contexts, players>>]_vars

\* ------------------------------------------------- every control event

\* One zone that comes and goes; a client sends every event a player has a
\* handler for, to players on the bus and to players taken off it.
NextEvents ==
    \/ \E url \in WsUrls : CorePaired(url)
    \/ CoreUnpaired
    \/ DeliverZones({ZonePlaying(Z1)})
    \/ DeliverRemoved({Z1})
    \/ \E pid \in DOMAIN players, eventName \in TransportEvents : Transport(pid, eventName)
    \/ \E pid \in DOMAIN players, offset \in SeekOffsets : Seek(pid, offset)
    \/ \E pid \in DOMAIN players, position \in SetPositions : Position(pid, position)
    \/ \E i \in DOMAIN pending, err \in BOOLEAN : SeekDone(i, err)
    \/ \E pid \in DOMAIN players, eventName \in LoggedEvents : Logged(pid, eventName)
    \/ \E pid \in DOMAIN players : Quit(pid)

SpecEvents == InitNormal /\ [][NextEvents]_vars

\* C11: a control event (a transport event, seek, position or a logged-only
\* event) on a player whose zone identifier is not in the registry raises
\* nothing, issues no upstream call, starts no pending call, emits no "seeked"
\* and leaves registry, contexts and players as they were.
C11_AbsentZoneIgnored ==
    [][(/\ last'.op \in TransportEvents \cup {"seek", "position"} \cup LoggedEvents
        /\ players[last'.player].zoneId \notin DOMAIN zonePlayerMap)
       => /\ ~threw'
          /\ upstream' = <<>>
          /\ seeked' = <<>>
          /\ UNCHANGED <<zonePlayerMap, contexts, players, pending, exitCode>>]_vars

\* With a core paired, 'stop' reached the player of a zone that had been
\* removed from the registry.
C11_StopAfterRemoval ==
    /\ last.op = "stop"
    /\ core # <<>>
    /\ ~players[last.player]._bus.connected
    /\ players[last.player].zoneId \notin DOMAIN zonePlayerMap

SeekingOffsets == {5000000, 0 - 20000000}

NextSeeking ==
    \/ \E url \in WsUrls : CorePaired(url)
    \/ CoreUnpaired
    \/ DeliverZones({ZonePlaying(Z1)})
    \/ DeliverRemoved({Z1})
    \/ DeliverSeekChanged({[zone_id |-> Z1, seek_position |-> Sec(45)]})
    \/ \E pid \in DOMAIN players, offset \in SeekingOffsets : Seek(pid, offset)
    \/ \E pid \in DOMAIN players, position \in SetPositions : Position(pid, position)
    \/ \E i \in DOMAIN pending, err \in BOOLEAN : SeekDone(i, err)

SpecSeeking == InitNormal /\ [][NextSeeking]_vars

\* C12: when the upstream call of a relative seek by d completes without
\* error while the context it was issued for is the zone's registry context,
\* exactly one "seeked" is emitted, on the zone's player, with max(0, P + d),
\* P being the last position known for the zone: the position of the last
\* zones_seek_changed report, or that of the snapshot when none was received.
C12_RelativeFromLastKnown ==
    [][(/\ last'.op = "seek_done"
        /\ ~last'.err
        /\ last'.call.how = "relative"
        /\ players[last'.call.player].zoneId \in DOMAIN zonePlayerMap
        /\ zonePlayerMap[players[last'.call.player].zoneId] = last'.call.context)
       => LET context == contexts[last'.call.context]
              props   == players[context.player].props
              P       == IF Has(props, "position") THEN props.position
                         ELSE context.zone.now_playing.seek_position * 500000
          IN seeked' = <<[player |-> context.player,
                          position |-> Max0(P + last'.call.amount)]>>]_vars

\* C13: a 'position' event with target t on the player of a zone in the
\* registry whose snapshot allows seeking, with a core paired, issues exactly
\* one upstream call, an absolute seek of that zone to t / 1000000 seconds
\* (t / 500000 half seconds); when an absolute seek call completes without
\* error exactly one "seeked" is emitted, with t.
C13_AbsoluteSeekExact ==
    [][/\ (/\ last'.op = "position"
           /\ core # <<>>
           /\ players[last'.player].zoneId \in DOMAIN zonePlayerMap
           /\ contexts[zonePlayerMap[players[last'.player].zoneId]].zone.is_seek_allowed)
          => upstream' = <<[call |-> "seek",
                            zone |-> contexts[zonePlayerMap[players[last'.player].zoneId]].zone,
                            how |-> "absolute",
                            seconds |-> last'.position \div 500000]>>
       /\ (last'.op = "seek_done" /\ ~last'.err /\ last'.call.how = "absolute")
          => seeked' = <<[player |-> last'.call.player, position |-> last'.call.amount]>>]_vars

\* An absolute seek to 45 s completed without error, for a zone in the
\* registry whose snapshot is at 10 s and for which nothing was reported.
C13_SeekedFortyFive ==
    /\ last.op = "seek_done"
    /\ ~last.err
    /\ last.call.how = "absolute"
    /\ seeked = <<[player |-> last.call.player, position |-> 45000000]>>
    /\ Z1 \in DOMAIN zonePlayerMap
    /\ contexts[zonePlayerMap[Z1]].zone.now_playing.seek_position = Sec(10)
    /\ contexts[zonePlayerMap[Z1]].lastReportedPosition = 0

\* C14: when an upstream seek call completes with an error, nothing is
\* notified, no upstream call is issued, no call is added to the pending
\* ones, and registry, contexts and players stay as they were.
C14_FailedSeekInert ==
    [][(last'.op = "seek_done" /\ last'.err)
       => /\ seeked' = <<>>
          /\ upstream' = <<>>
          /\ Len(pending') = Len(pending) - 1
          /\ UNCHANGED <<zonePlayerMap, contexts, players>>]_vars

\* A relative seek call failed while its zone was in the registry, after a
\* position report.
C14_RelativeFailed ==
    /\ last.op = "seek_done"
    /\ last.err
    /\ last.call.how = "relative"
    /\ Z1 \in DOMAIN zonePlayerMap
    /\ zonePlayerMap[Z1] = last.call.context
    /\ contexts[zonePlayerMap[Z1]].lastReportedPosition = 45000000

\* ---------------------------------------------------------- zone names

\* A letter of either case, a digit, the underscore, the hyphen, a space and
\* a letter outside ASCII.
NameChars == {"a", "Z", "7", "_", "-", " ", "é"}

DisplayNames == UNION {[1..n -> NameChars] : n \in 0..MaxNameLen}

ZoneNamed(displayName) == [ZonePlaying(Z1) EXCEPT !.display_name = displayName]

\* A zone under any display name; clients control its player.
NextNames ==
    \/ \E url \in WsUrls : CorePaired(url)
    \/ DeliverZones({ZoneNamed(displayName) : displayName \in DisplayNames})
    \/ \E pid \in DOMAIN players : Transport(pid, "playpause")

SpecNames == InitNormal /\ [][NextNames]_vars

\* C18: for every display name, the empty one, those of disallowed characters
\* only and those starting with a digit included, the name of the context and
\* of its player is "roon_" followed by a non-empty string of ASCII letters,
\* digits, underscores and hyphens that does not begin with a digit; the string
\* is "unnamed_zone" for the empty name and has as many characters as the
\* display name, or five more when that begins with a digit, otherwise.
C18_SanitizedName ==
    \A cid \in DOMAIN contexts :
        LET displayName == contexts[cid].zone.display_name
            name        == contexts[cid].sanitizedName
            rest        == SubSeq(name, 6, Len(name))
        IN /\ players[contexts[cid].player].name = name
           /\ Len(name) > 5
           /\ SubSeq(name, 1, 5) = <<"r", "o", "o", "n", "_">>
           /\ \A i \in DOMAIN rest :
                 rest[i] \in Uppers \cup Lowers \cup Digits \cup {"_", "-"}
           /\ rest[1] \notin Digits
           /\ displayName = <<>>
                 => rest = <<"u", "n", "n", "a", "m", "e", "d", "_", "z", "o", "n", "e">>
           /\ displayName # <<>>
                 => Len(rest) = Len(displayName)
                                  + (IF displayName[1] \in Digits THEN 5 ELSE 0)

\* A zone whose display name begins with a digit and goes on with a letter
\* outside ASCII.
C18_DigitAccent ==
    \E cid \in DOMAIN contexts :
        /\ contexts[cid].zone.display_name = <<"7", "é">>
        /\ contexts[cid].sanitizedName =
              <<"r", "o", "o", "n", "_", "z", "o", "n", "e", "_", "7", "_">>

\* ------------------------------------------------------- track identity

\* The first zone under its name and under another one, playing the same
\* track; the zone playing a track with an artist only, its title and album
\* missing or empty; the zone playing a track without an artist.
ZoneRenamed(zoneId) ==
    [ZonePlaying(zoneId) EXCEPT !.display_name = <<"D", "e", "n">>]

ZoneWithLines(zoneId, threeLine) ==
    [ZonePlaying(zoneId) EXCEPT !.now_playing.three_line = threeLine]

TrackZones ==
    {ZonePlaying(Z1), ZoneRenamed(Z1),
     ZoneWithLines(Z1, [line2 |-> <<"X">>]),
     ZoneWithLines(Z1, [line1 |-> <<>>, line2 |-> <<"X">>, line3 |-> <<>>]),
     ZoneWithLines(Z1, [line1 |-> <<"S", "o", "n", "g">>, line3 |-> <<"A", "l", "b", "u", "m">>])}

NextTracks ==
    \/ \E url \in WsUrls : CorePaired(url)
    \/ DeliverZones(TrackZones)
    \/ DeliverChanged(TrackZones)
    \/ DeliverRemoved({Z1})
    \/ DeliverSeekChanged({[zone_id |-> Z1, seek_position |-> Sec(45)]})

SpecTracks == InitNormal /\ [][NextTracks]_vars

\* The players whose context holds a snapshot the metadata can be built from.
TrackPlayers ==
    {pid \in DOMAIN players :
        /\ Has(contexts[pid].zone, "now_playing")
        /\ Has(contexts[pid].zone.now_playing, "three_line")
        /\ Has(contexts[pid].zone.now_playing.three_line, "line2")}

\* Title, artist and album of the snapshot of player pid, a missing one empty.
TrackOf(pid) ==
    LET threeLine == contexts[pid].zone.now_playing.three_line
    IN [line \in {"line1", "line2", "line3"} |->
          IF Has(threeLine, line) THEN threeLine[line] ELSE <<>>]

\* The hash of title|artist|album, as JavaScript computes it, of the two
\* tracks that zones play here.
HashOfTrack(track) ==
    IF track.line1 = <<>> /\ track.line2 = <<"X">> /\ track.line3 = <<>>
    THEN <<"1", "d", "c", "a", "0">>
    ELSE <<"9", "c", "4", "3", "b", "1", "b", "e">>

ZoneWithArtists(zoneId, line2) ==
    [ZonePlaying(zoneId) EXCEPT !.now_playing.three_line.line2 = line2]

ZoneWithoutLength(zoneId) ==
    [ZonePlaying(zoneId) EXCEPT
        !.now_playing = [k \in DOMAIN @ \ {"length"} |-> @[k]]]

\* Artist lines with one space, two spaces and no space around the slash, and
\* with three artists.
ProjectZones ==
    {ZonePlaying(Z1), ZoneWithoutLength(Z1),
     ZoneWithArtists(Z1, <<"A", " ", " ", "/", " ", " ", "B">>),
     ZoneWithArtists(Z1, <<"A", "/", "B">>),
     ZoneWithArtists(Z1, <<"A", " ", "/", " ", "B", " ", "/", " ", "C">>)}

NextProject ==
    \/ \E url \in WsUrls : CorePaired(url)
    \/ CoreUnpaired
    \/ DeliverZones(ProjectZones)
    \/ DeliverChanged(ProjectZones)
    \/ DeliverRemoved({Z1})

SpecProject == InitNormal /\ [][NextProject]_vars

\* The zone of the end-to-end example is the stored snapshot of context cid.
ExampleStored(cid) ==
    /\ contexts[cid].zone.zone_id = <<"z", "1">>
    /\ contexts[cid].zone.display_name = <<"L", "i", "v", "i", "n", "g", " ", "R", "o", "o", "m">>
    /\ contexts[cid].zone.state = <<"p", "l", "a", "y", "i", "n", "g">>
    /\ Has(contexts[cid].zone.now_playing, "length")
    /\ contexts[cid].zone.now_playing.length = 2 * 200
    /\ contexts[cid].zone.now_playing.image_key = <<"i", "m", "g", "1">>
    /\ contexts[cid].zone.now_playing.three_line =
          [line1 |-> <<"S", "o", "n", "g">>,
           line2 |-> <<"A", "r", "t", "i", "s", "t", " ", "A", " ", "/", " ", "A", "r", "t", "i", "s", "t", " ", "B">>,
           line3 |-> <<"A", "l", "b", "u", "m">>]

\* What the example projects, for the context cid that stores it.
ExampleProjected(cid) ==
    LET props == players[contexts[cid].player].props
    IN /\ contexts[cid].sanitizedName =
             <<"r", "o", "o", "n", "_", "L", "i", "v", "i", "n", "g", "_", "R", "o", "o", "m">>
       /\ players[contexts[cid].player].name = contexts[cid].sanitizedName
       /\ props.playbackStatus = <<"P", "l", "a", "y", "i", "n", "g">>
       /\ props.metadata["xesam:artist"] =
             <<(<<"A", "r", "t", "i", "s", "t", " ", "A">>), (<<"A", "r", "t", "i", "s", "t", " ", "B">>)>>
       /\ props.metadata["mpris:length"] = 200000000
       /\ props.metadata["xesam:title"] = <<"S", "o", "n", "g">>
       /\ props.metadata["xesam:album"] = <<"A", "l", "b", "u", "m">>
       /\ props.metadata["mpris:artUrl"] =
             <<"h", "t", "t", "p", ":", "/", "/", "1", "9", "2", ".", "1", "6", "8", ".", "1", ".", "5",
               ":", "9", "1", "0", "0", "/", "i", "m", "a", "g", "e", "/", "i", "m", "g", "1">>

\* The length projected for context cid: now_playing.length (held in half
\* seconds) in microseconds, 0 when absent.
LengthProjected(cid) ==
    players[contexts[cid].player].props.metadata["mpris:length"] =
        IF Has(contexts[cid].zone.now_playing, "length")
        THEN contexts[cid].zone.now_playing.length * 500000
        ELSE 0

\* The artist lists of the artist lines that zones have here, split at every
\* slash that has whitespace on both sides.
ArtistsOf(line2) ==
    CASE line2 = <<"A", " ", " ", "/", " ", " ", "B">> -> <<(<<"A">>), (<<"B">>)>>
      [] line2 = <<"A", "/", "B">> -> <<(<<"A", "/", "B">>)>>
      [] line2 = <<"A", " ", "/", " ", "B", " ", "/", " ", "C">> -> <<(<<"A">>), (<<"B">>), (<<"C">>)>>
      [] OTHER -> <<(<<"A", "r", "t", "i", "s", "t", " ", "A">>), (<<"A", "r", "t", "i", "s", "t", " ", "B">>)>>

\* C21 as it reads: the example projects identifier, status and metadata as
\* listed; the length is now_playing.length * 1000000, 0 when absent, and the
\* artist list is line2 split at every " / ".
C21_ProjectionSplitOnSpaceSlashSpace ==
    \A cid \in DOMAIN contexts :
        /\ ExampleStored(cid) => ExampleProjected(cid)
        /\ LengthProjected(cid)
        /\ players[contexts[cid].player].props.metadata["xesam:artist"] =
              SplitOnSpaceSlashSpace(contexts[cid].zone.now_playing.three_line.line2)

\* C21, amended: as C21, the artist list being line2 split at every slash
\* that has one or more whitespace characters on each side.
C21_ProjectionSplitOnSlashInWhitespace ==
    \A cid \in DOMAIN contexts :
        /\ ExampleStored(cid) => ExampleProjected(cid)
        /\ LengthProjected(cid)
        /\ players[contexts[cid].player].props.metadata["xesam:artist"] =
              ArtistsOf(contexts[cid].zone.now_playing.three_line.line2)

\* The example zone was delivered in a zones_changed section and is the
\* stored snapshot of the zone's registry context.
C21_ExampleAfterNoLength ==
    \E cid \in DOMAIN contexts :
        /\ ExampleStored(cid)
        /\ last.op = "zones"
        /\ Has(last.data, "zones_changed")
        /\ zonePlayerMap = (Z1 :> cid)

\* ------------------------------------- completions after registry changes

\* The first zone with its snapshot at another position.
ZoneAt(zoneId, seekPosition) ==
    [ZonePlaying(zoneId) EXCEPT !.now_playing.seek_position = seekPosition]

\* Snapshots of the first zone at 10 s and at 30 s.
RefetchZones == {ZonePlaying(Z1), ZoneAt(Z1, Sec(30))}

\* The zone comes, changes and goes while relative seek calls are pending.
NextRefetch ==
    \/ \E url \in WsUrls : CorePaired(url)
    \/ DeliverZones(RefetchZones)
    \/ DeliverChanged(RefetchZones)
    \/ DeliverRemoved({Z1})
    \/ \E pid \in DOMAIN players, offset \in SeekOffsets : Seek(pid, offset)
    \/ \E i \in DOMAIN pending, err \in BOOLEAN : SeekDone(i, err)

SpecRefetch == InitNormal /\ [][NextRefetch]_vars

\* C22: when a relative seek call, issued on the player that the zone's
\* registry context held then, completes without error while the zone is in
\* the registry, exactly one "seeked" is emitted, on the player of the zone's
\* registry context, with the position of that context's snapshot plus the
\* offset, floored at zero, whatever happened to the zone since the call was
\* issued.
C22_CompletionRefetches ==
    [][(/\ last'.op = "seek_done"
        /\ ~last'.err
        /\ last'.call.how = "relative"
        /\ contexts[last'.call.context].player = last'.call.player
        /\ players[last'.call.player].zoneId \in DOMAIN zonePlayerMap)
       => LET context == contexts[zonePlayerMap[players[last'.call.player].zoneId]]
          IN seeked' = <<[player   |-> context.player,
                          position |-> Max0(context.zone.now_playing.seek_position * 500000
                                            + last'.call.amount)]>>]_vars

\* ------------------------------------------------------- hash of a track

\* The first zone playing four tracks: Song|Artist A / Artist B|Album, |X|
\* (no title, no album), || (three empty lines) and Song|X|Album.
HashZones ==
    {ZonePlaying(Z1),
     ZoneWithLines(Z1, [line2 |-> <<"X">>]),
     ZoneWithLines(Z1, [line1 |-> <<>>, line2 |-> <<>>, line3 |-> <<>>]),
     ZoneWithLines(Z1, [line1 |-> <<"S", "o", "n", "g">>, line2 |-> <<"X">>,
                        line3 |-> <<"A", "l", "b", "u", "m">>])}

NextHash ==
    \/ \E url \in WsUrls : CorePaired(url)
    \/ DeliverZones(HashZones)
    \/ DeliverChanged(HashZones)
    \/ DeliverRemoved({Z1})

SpecHash == InitNormal /\ [][NextHash]_vars

\* The part of the token of player pid that follows track/<zone identifier>_.
HashPart(pid) ==
    LET subpath == players[pid].props.metadata["mpris:trackid"].subpath
    IN SubSeq(subpath, 6 + Len(players[pid].zoneId) + 2, Len(subpath))

\* h := (h * 31 + charCode) mod 2^32 over title|artist|album, from 0, in
\* hexadecimal digits without leading zeros, for the four tracks (2621682110,
\* 122016, 3968 and 74381796).
HexOfTrack(track) ==
    CASE track.line2 = <<>> -> <<"f", "8", "0">>
      [] track.line1 = <<>> /\ track.line2 = <<"X">> -> <<"1", "d", "c", "a", "0">>
      [] track.line1 # <<>> /\ track.line2 = <<"X">> -> <<"4", "6", "e", "f", "9", "e", "4">>
      [] OTHER -> <<"9", "c", "4", "3", "b", "1", "b", "e">>

\* C23 as it reads: the hash part of a token is the unsigned 32-bit value of
\* h := h * 31 + charCode over title|artist|album in hexadecimal, and the hash
\* parts of the tokens of a zone all have the same width.
C23_HashFixedWidth ==
    /\ \A pid \in TrackPlayers :
          \E zeros \in {<<>>, <<"0">>, <<"0", "0", "0">>, <<"0", "0", "0", "0", "0">>} :
              HashPart(pid) = zeros \o HexOfTrack(TrackOf(pid))
    /\ \A p, q \in TrackPlayers :
          players[p].zoneId = players[q].zoneId => Len(HashPart(p)) = Len(HashPart(q))

\* ------------------------------------------------------- renamed zones

\* The first zone under two display names; it comes, changes, reports 45 s
\* and goes.
RenameZones == {ZonePlaying(Z1), ZoneRenamed(Z1)}

NextRename ==
    \/ \E url \in WsUrls : CorePaired(url)
    \/ CoreUnpaired
    \/ DeliverZones(RenameZones)
    \/ DeliverChanged(RenameZones)
    \/ DeliverRemoved({Z1})
    \/ DeliverSeekChanged({[zone_id |-> Z1, seek_position |-> Sec(45)]})

SpecRename == InitNormal /\ [][NextRename]_vars

\* C24: identifier, player and base address of a context, and the name of its
\* player, are those it was created with after every step; a zones_changed
\* entry for a zone in the registry stores the delivered snapshot, display
\* name included, in the same context, and the registry keeps that context.
C24_IdentityFixedAtCreation ==
    [][/\ \A cid \in DOMAIN contexts :
             /\ cid \in DOMAIN contexts'
             /\ contexts'[cid].sanitizedName = contexts[cid].sanitizedName
             /\ contexts'[cid].player = contexts[cid].player
             /\ contexts'[cid].wsUrl = contexts[cid].wsUrl
             /\ players'[contexts[cid].player].name = players[contexts[cid].player].name
       /\ (/\ last'.op = "zones"
           /\ ~Disconnected(core)
           /\ DOMAIN last'.data = {"zones_changed"})
          => \A i \in DOMAIN last'.data.zones_changed :
                LET zone == last'.data.zones_changed[i]
                IN zone.zone_id \in DOMAIN zonePlayerMap
                   => /\ zonePlayerMap' = zonePlayerMap
                      /\ contexts'[zonePlayerMap[zone.zone_id]].zone.display_name
                           = zone.display_name]_vars

\* The zone was added as "Living Room" and a zones_changed named it "Den": the
\* snapshot says "Den", context and player are still roon_Living_Room.
C24_RenamedByChange ==
    /\ last.op = "zones"
    /\ Has(last.data, "zones_changed")
    /\ Z1 \in DOMAIN zonePlayerMap
    /\ contexts[zonePlayerMap[Z1]].zone.display_name = <<"D", "e", "n">>
    /\ contexts[zonePlayerMap[Z1]].sanitizedName =
          <<"r", "o", "o", "n", "_", "L", "i", "v", "i", "n", "g", "_", "R", "o", "o", "m">>
    /\ players[contexts[zonePlayerMap[Z1]].player].name = contexts[zonePlayerMap[Z1]].sanitizedName

\* ------------------------------------------------- position of a player

\* The first zone at 10 s, at 30 s and idle; it comes, changes, reports 45 s
\* and goes, and the position of its players is read.
PositionZones == {ZonePlaying(Z1), ZoneAt(Z1, Sec(30)), ZoneIdle(Z1)}

NextPosition ==
    \/ \E url \in WsUrls : CorePaired(url)
    \/ DeliverZones(PositionZones)
    \/ DeliverChanged(PositionZones)
    \/ DeliverRemoved({Z1})
    \/ DeliverSeekChanged({[zone_id |-> Z1, seek_position |-> Sec(45)]})
    \/ \E pid \in DOMAIN players : GetPosition(pid)

SpecPosition == InitNormal /\ [][NextPosition]_vars

\* C25: a zones_seek_changed payload changes the stored snapshot of no
\* context and a zones_changed payload the lastReportedPosition of none;
\* getPosition returns seek_position * 1000000 of the snapshot stored for the
\* player's zone, and 0 when the zone is not in the registry or the snapshot
\* has no now_playing, and changes nothing.
C25_SnapshotAndBaselineApart ==
    [][/\ (last'.op = "zones" /\ DOMAIN last'.data = {"zones_seek_changed"})
          => /\ zonePlayerMap' = zonePlayerMap
             /\ \A cid \in DOMAIN contexts : contexts'[cid].zone = contexts[cid].zone
       /\ (last'.op = "zones" /\ DOMAIN last'.data = {"zones_changed"})
          => \A cid \in DOMAIN contexts :
                contexts'[cid].lastReportedPosition = contexts[cid].lastReportedPosition
       /\ last'.op = "getPosition"
          => /\ UNCHANGED <<zonePlayerMap, contexts, players>>
             /\ LET zoneId == players[last'.player].zoneId
                IN last'.value =
                     IF /\ zoneId \in DOMAIN zonePlayerMap
                        /\ "now_playing" \in DOMAIN contexts[zonePlayerMap[zoneId]].zone
                     THEN contexts[zonePlayerMap[zoneId]].zone.now_playing.seek_position * 500000
                     ELSE 0]_vars

\* After a snapshot at 10 s and a report of 45 s the position read is
\* 10000000 while the position pushed to the player is 45000000.
C25_ReadDiffersFromPushed ==
    /\ last.op = "getPosition"
    /\ last.value = 10000000
    /\ Z1 \in DOMAIN zonePlayerMap
    /\ last.player = contexts[zonePlayerMap[Z1]].player
    /\ Has(players[last.player].props, "position")
    /\ players[last.player].props.position = 45000000
    /\ contexts[zonePlayerMap[Z1]].lastReportedPosition = 45000000

\* The five properties that every projection assigns show the state of zone.
StateShown(props, zone) ==
    /\ props.playbackStatus = Capitalize(zone.state)
    /\ props.canGoNext = zone.is_next_allowed
    /\ props.canGoPrevious = zone.is_previous_allowed
    /\ props.canPause = zone.is_pause_allowed
    /\ props.canSeek = zone.is_seek_allowed

\* C26: a zones_changed snapshot without now_playing for a zone in the
\* registry leaves the metadata of the zone's player as it was, present or
\* not, and sets playback status and the four capability flags from the
\* snapshot; an add snapshot without now_playing gives the new player no
\* metadata and sets status and flags; and no player ever has canPlay
\* assigned.
C26_MetadataKeptWithoutNowPlaying ==
    /\ [](\A pid \in DOMAIN players : "canPlay" \notin DOMAIN players[pid].props)
    /\ [][(/\ last'.op = "zones"
            /\ DOMAIN last'.data = {"zones_changed"}
            /\ last'.data.zones_changed[1].zone_id \in DOMAIN zonePlayerMap
            /\ "now_playing" \notin DOMAIN last'.data.zones_changed[1])
           => LET zone == last'.data.zones_changed[1]
                  pid  == contexts[zonePlayerMap[zone.zone_id]].player
              IN /\ Has(players'[pid].props, "metadata") = Has(players[pid].props, "metadata")
                 /\ Has(players[pid].props, "metadata")
                       => players'[pid].props.metadata = players[pid].props.metadata
                 /\ StateShown(players'[pid].props, zone)]_vars
    /\ [][(/\ last'.op = "zones"
            /\ DOMAIN last'.data = {"zones"}
            /\ last'.data.zones[1].zone_id \notin DOMAIN zonePlayerMap
            /\ "now_playing" \notin DOMAIN last'.data.zones[1])
           => /\ Len(players') = Len(players) + 1
              /\ ~Has(players'[Len(players')].props, "metadata")
              /\ StateShown(players'[Len(players')].props, last'.data.zones[1])]_vars

\* The zone played a track and a zones_changed without now_playing paused it:
\* the player is "Paused" and still shows the title of the track.
C26_TitleKeptWhenIdle ==
    /\ last.op = "zones"
    /\ Has(last.data, "zones_changed")
    /\ Z1 \in DOMAIN zonePlayerMap
    /\ ~Has(contexts[zonePlayerMap[Z1]].zone, "now_playing")
    /\ Has(players[contexts[zonePlayerMap[Z1]].player].props, "metadata")
    /\ players[contexts[zonePlayerMap[Z1]].player].props.metadata["xesam:title"] = <<"S", "o", "n", "g">>
    /\ players[contexts[zonePlayerMap[Z1]].player].props.playbackStatus = <<"P", "a", "u", "s", "e", "d">>

====
